---- MODULE Spec2Model ----
(***************************************************************************)
(* django-scrubber: the scrub_data management command.                     *)
(*                                                                         *)
(* Command.handle (scrub_data.py) is modelled line by line as a state      *)
(* machine: environment gate, strict-mode check, model selection, and for  *)
(* every model the rule resolution, the realization of the rules, signal   *)
(* disconnection, the trim (_large_delete with its thread pool) and the    *)
(* bulk update, followed by the session / fake-data truncation.            *)
(***************************************************************************)
EXTENDS Integers, Sequences, FiniteSets, TLC

(***************************************************************************)
(* Scrubbing rules.  A rule is the Keep sentinel, a literal value, or a    *)
(* callable.  Every rule and every stored value is a record [kind, v] so   *)
(* that any two of them can be compared.                                   *)
(***************************************************************************)
Keep == [kind |-> "keep", v |-> "Keep"]

Lit(x) == [kind |-> "lit", v |-> x]

\* a callable that returns the literal x whatever field it is invoked with
Gen(x) == [kind |-> "gen", v |-> x]

\* a callable whose result is derived from the field it is invoked with
GenField == [kind |-> "genf", v |-> "by-field"]

\* Python's None, empty string and 0 (the falsy literals)
PyNone == "<None>"

PyEmpty == ""

PyZero == "<0>"

PyFalse == "<False>"

FalsyLiterals == {PyNone, PyEmpty, PyZero, PyFalse}

\* bool(x) of Python: functions and classes are truthy, literals by value
Truthy(x) == x.kind # "lit" \/ x.v \notin FalsyLiterals

\* callable(v): the Keep class is removed from the table before the table is
\* realized, so only generator functions are invoked
Callable(v) == v.kind \in {"gen", "genf"}

\* v(k): the invocation of callable v with field k
Call(v, k) == IF v.kind = "gen" THEN Lit(v.v) ELSE Lit(k)

(***************************************************************************)
(* Dictionaries are functions; d.update(e) is Merge(d, e).                 *)
(***************************************************************************)
EmptyDict == [k \in {} |-> Keep]

Merge(d, e) ==
    [k \in DOMAIN d \cup DOMAIN e |-> IF k \in DOMAIN e THEN e[k] ELSE d[k]]

Restrict(d, S) == [k \in S |-> d[k]]

(***************************************************************************)
(* The model registry (django.apps): labels, fields and field types.       *)
(***************************************************************************)
Customer == "app.Customer"

Note == "notes.Note"

CustomerProxy == "app.CustomerProxy"

AllModels == <<Customer, CustomerProxy, Note>>

ModelFields(m) == IF m = Note THEN {"body"} ELSE {"name", "email"}

\* type(field): both Customer fields are CharFields
FieldType(m, f) == IF m = Note THEN "TextField" ELSE "CharField"

\* keys of the global table that stand for a field type (a class object)
TypeKey(t) == <<"type", t>>

NameKey(n) == <<"name", n>>

IsProxy(m) == m = CustomerProxy

\* model._meta.managed: Note is an unmanaged model
IsManaged(m) == m # Note

\* model._meta.app_config.name
AppName(m) == IF m = Note THEN "notes" ELSE "app"

\* the model behind a proxy shares its table
TableOf(m) == IF m = CustomerProxy THEN Customer ELSE m

\* hasattr(queryset_item, 'orders'): Customer has the reverse relation
HasOrdersRelation(m) == TableOf(m) = Customer

(***************************************************************************)
(* Rule resolution and realization (pure helpers of scrub_data.py).        *)
(***************************************************************************)
\* the two lookups of lines 80-83 in the other order
GlobalScrubbersOf_TypeFirst(m, gs) ==
    LET hit == {f \in ModelFields(m) :
                   NameKey(f) \in DOMAIN gs \/ TypeKey(FieldType(m, f)) \in DOMAIN gs}
    IN  [f \in hit |-> IF TypeKey(FieldType(m, f)) \in DOMAIN gs
                          THEN gs[TypeKey(FieldType(m, f))]
                          ELSE gs[NameKey(f)]]

\* lines 78-83: the global rule of a field, by name first, by type second
GlobalScrubbersOf(m, gs) ==
    LET hit == {f \in ModelFields(m) :
                   NameKey(f) \in DOMAIN gs \/ TypeKey(FieldType(m, f)) \in DOMAIN gs}
    IN  [f \in hit |-> IF NameKey(f) \in DOMAIN gs
                          THEN gs[NameKey(f)]
                          ELSE gs[TypeKey(FieldType(m, f))]]

\* k.startswith('_') for the attribute names a Scrubbers class can carry
StartsWithUnderscore(k) == k \in {"__module__", "__doc__"}

\* _get_fields: the non-underscore attributes of a class
_get_fields(d) == Restrict(d, {k \in DOMAIN d : ~StartsWithUnderscore(k)})

\* the class _get_model_scrubbers reads: the settings mapping wins over the
\* model's own Scrubbers attribute
ScrubberClassOf(m, mapping, classes) ==
    IF m \in DOMAIN mapping THEN mapping[m] ELSE classes[m]

\* attributes of the scrubber class that name no field of the model
UnknownScrubberFields(m, mapping, classes) ==
    LET c == ScrubberClassOf(m, mapping, classes)
    IN  IF ~c.has THEN {}
        ELSE {k \in DOMAIN _get_fields(c.attrs) : k # "Meta" /\ k \notin ModelFields(m)}

_get_model_scrubbers(m, mapping, classes) ==
    LET c == ScrubberClassOf(m, mapping, classes)
    IN  IF ~c.has THEN EmptyDict
        ELSE LET fs == _get_fields(c.attrs)
             IN  Restrict(fs, {k \in DOMAIN fs : k # "Meta" /\ k \in ModelFields(m)})

\* lines 78-85: global rules, overridden by the model-declared ones
ResolvedScrubbers(m, gs, mapping, classes) ==
    Merge(GlobalScrubbersOf(m, gs), _get_model_scrubbers(m, mapping, classes))

\* lines 87-92 without the comparison with Keep
WithoutKeptFields_NoFilter(s) == s

\* lines 87-92
WithoutKeptFields(s) == Restrict(s, {f \in DOMAIN s : s[f] # Keep})

\* callable(v) and v(k) or v
AndOr(v, k) ==
    LET x == IF Callable(v) THEN Call(v, k) ELSE Lit(PyFalse)
    IN  IF Truthy(x) THEN x ELSE v

_call_callables(d) == [k \in DOMAIN d |-> AndOr(d[k], k)]

_filter_out_disabled(d) == Restrict(d, {k \in DOMAIN d : Truthy(d[k])})

\* _get_options: the attributes of model.Scrubbers.Meta (the model's own
\* class, never the one of SCRUBBER_MAPPING), {} when there is none
_get_options(m, classes) ==
    IF classes[m].has /\ "Meta" \in DOMAIN classes[m].attrs
    THEN classes[m].meta
    ELSE [keys |-> {}, disconnect_signals |-> {}, exclude |-> {}]

(***************************************************************************)
(* Bounds and inputs.                                                      *)
(***************************************************************************)
\* rows of Customer strictly older than the default cutoff
NumOld == 3

\* rows per page of the Paginator (250 in the source, scaled down)
PageSize == 2

\* datetime.datetime.now(), in days
Now == 2000

\* the default of --older-than
DefaultOlderThan == 1095

OlderThanChoices == {DefaultOlderThan, DefaultOlderThan + 1}

\* Customer rows: NumOld old ones and one exactly at the default cutoff
CustomerPks == 1 .. (NumOld + 1)

\* the trim attribute ("created") of Customer row pk, in days
Created(pk) == (Now - DefaultOlderThan) - (NumOld + 1) + pk

NotePks == {1}

\* a gate that also lets the production environment through
AllowedEnvironments_WithProduction == {"STAGING", "DEVELOP", "NONPROD", "PRODUCTION"}

AllowedEnvironments == {"STAGING", "DEVELOP", "NONPROD"}

Environments == {"STAGING", "PRODUCTION"}

\* --model: None, or the dot-separated segments of the given string
NoModelArg == <<>>

ModelArgs == {NoModelArg, <<"notes", "Note">>, <<"Note">>, <<"notes", "Missing">>}

\* str.rsplit('.', 1)
RSplit1(segs) == IF Len(segs) = 1 THEN segs ELSE <<SubSeq(segs, 1, Len(segs) - 1), segs[Len(segs)]>>

\* apps.get_model: the registered model of (app_label, model_name), if any
RegisteredModels(app_label, model_name) ==
    {m \in {Customer, CustomerProxy, Note} :
        \/ (m = Customer /\ app_label = <<"app">> /\ model_name = "Customer")
        \/ (m = CustomerProxy /\ app_label = <<"app">> /\ model_name = "CustomerProxy")
        \/ (m = Note /\ app_label = <<"notes">> /\ model_name = "Note")}

\* Meta options: the option names present, and the values of the two
\* options whose value matters (the signals to disconnect, the pks that
\* match the exclude filter)
Options(keys, signals, excluded) ==
    [keys |-> keys, disconnect_signals |-> signals, exclude |-> excluded]

NoOptions == Options({}, {}, {})

TrimOptions ==
    Options({"trim_table", "trim_attribute", "disconnect_signals", "exclude"},
            {"post_save:audit"}, {NumOld + 1})

SignalOptions == Options({"disconnect_signals"}, {"post_save:index"}, {})

\* a Scrubbers class: its attributes (name -> rule) and its Meta options
NoClass == [has |-> FALSE, attrs |-> EmptyDict, meta |-> NoOptions]

\* class attributes every Python class carries
DunderAttrs == [k \in {"__module__"} |-> Lit("scrubbers")]

ClassOf(attrs) == [has |-> TRUE, attrs |-> Merge(DunderAttrs, attrs), meta |-> NoOptions]

ClassWithMeta(attrs, opts) ==
    [has |-> TRUE,
     attrs |-> Merge(DunderAttrs, Merge(attrs, [k \in {"Meta"} |-> Lit("<class Meta>")])),
     meta |-> opts]

(***************************************************************************)
(* State.                                                                  *)
(***************************************************************************)
VARIABLES
    pc,                  \* position of the main thread in handle / _large_delete
    env,                 \* settings.ENVIRONMENT
    kwargs,              \* the command-line options
    stderr,              \* messages written to self.stderr
    exc,                 \* the exception that left handle, "none" if none
    strict_mode,         \* SCRUBBER_STRICT_MODE as read
    non_scrubbed_field_list, \* what ScrubberValidatorService.process() returned
    global_scrubbers,    \* SCRUBBER_GLOBAL_SCRUBBERS as read
    scrubber_apps_list,  \* SCRUBBER_APPS_LIST as read
    models,              \* the models handle iterates over
    mi,                  \* index in models of the model being processed
    Scrubbers,           \* the Scrubbers class of the model being processed
    scrubber_mapping,    \* SCRUBBER_MAPPING restricted to that model
    scrubbers,           \* handle's local: field -> rule
    realized_scrubbers,  \* handle's local: field name -> realized value
    options,             \* handle's local: the Meta options
    warned,              \* warnings.warn: scrubber attributes naming no field
    disconnected,        \* signals disconnected so far
    rows,                \* table -> pks of the rows stored
    orders,              \* pks of the Customer rows that have orders
    vals,                \* table -> pk -> field -> stored value
    sessions,            \* rows of the Session table
    fake_data,           \* rows of the FakeData table
    cutoff,              \* the value of the trim filter (now - older_than)
    count,               \* Paginator.count, cached at its first use
    page_num,            \* loop variable of _large_delete
    page,                \* the items of the page being iterated
    idx,                 \* position of the iteration in page
    futures,             \* _large_delete's local list: target -> future
    work,                \* the executor's unfinished work items
    last_delete,         \* the most recent objs.delete() of the trim of this model
    log,                 \* targets of the logger.warning calls of that trim
    submitted            \* pk -> number of executor.submit calls of the row loop for it

\* the state of the parallel orchestrators (trim_data, scrub_data_parallel)
VARIABLES
    command,             \* the orchestrator that runs, "none" if scrub_data runs alone
    par_pc,              \* position of the orchestrator's handle
    par_kwargs,          \* the orchestrator's command-line options
    stdout,              \* the lines of scrub_validation's output
    par_models,          \* handle's local list models
    procs                \* one record per executor.submit: the scrub_data subprocess

parvars == <<command, par_pc, par_kwargs, stdout, par_models, procs>>

cfgvars == <<env, kwargs, strict_mode, non_scrubbed_field_list, global_scrubbers,
             scrubber_apps_list>>

rulevars == <<Scrubbers, scrubber_mapping, scrubbers, realized_scrubbers, options, warned>>

dbvars == <<rows, orders, vals, sessions, fake_data, disconnected>>

trimvars == <<cutoff, count, page_num, page, idx, futures, work, last_delete, log,
              submitted>>

vars == <<pc, stderr, exc, models, mi, cfgvars, rulevars, dbvars, trimvars, parvars>>

\* the model being processed and its table
model == models[mi]

table == TableOf(model)

Orig == Lit("orig")

rows0 == [t \in {Customer, Note} |-> IF t = Customer THEN CustomerPks ELSE NotePks]

\* the odd Customer rows have orders, and so has the recent one
orders0 == {pk \in CustomerPks : pk % 2 = 1 \/ pk > NumOld}

vals0 ==
    [t \in {Customer, Note} |->
        [pk \in rows0[t] |-> [f \in ModelFields(t) |-> Orig]]]

sessions0 == {"s1"}

fake_data0 == {"f1"}

NoMapping == [x \in {} |-> NoClass]

NoDelete == [target |-> <<"none", 0>>, try |-> 0, flag |-> FALSE, outcome |-> "none"]

NoFutures == [t \in {} |-> [done |-> FALSE, exception |-> FALSE]]

NoWork == [t \in {} |-> [st |-> "pending", page |-> 0]]

NoSubmitted == [pk \in {} |-> 0]

InitState ==
    /\ stderr = <<>>
    /\ exc = "none"
    /\ strict_mode = FALSE
    /\ non_scrubbed_field_list = <<>>
    /\ global_scrubbers = EmptyDict
    /\ scrubber_apps_list = {}
    /\ models = <<>>
    /\ mi = 0
    /\ Scrubbers = NoClass
    /\ scrubber_mapping = NoMapping
    /\ scrubbers = EmptyDict
    /\ realized_scrubbers = EmptyDict
    /\ options = NoOptions
    /\ warned = {}
    /\ disconnected = {}
    /\ rows = rows0
    /\ orders = orders0
    /\ vals = vals0
    /\ sessions = sessions0
    /\ fake_data = fake_data0
    /\ cutoff = 0
    /\ count = 0
    /\ page_num = 0
    /\ page = <<>>
    /\ idx = 0
    /\ futures = NoFutures
    /\ work = NoWork
    /\ last_delete = NoDelete
    /\ log = {}
    /\ submitted = NoSubmitted

\* no orchestrator: scrub_data was started from the command line
ParOff ==
    /\ command = "none"
    /\ par_pc = "off"
    /\ par_kwargs = [older_than |-> DefaultOlderThan, trim_only |-> FALSE]
    /\ stdout = <<>>
    /\ par_models = <<>>
    /\ procs = <<>>

Init ==
    /\ ParOff
    /\ pc = "gate"
    /\ env \in Environments
    /\ kwargs \in [model : ModelArgs, keep_sessions : BOOLEAN,
                   remove_fake_data : BOOLEAN, older_than : OlderThanChoices]
    /\ InitState

(***************************************************************************)
(* The settings and declarations the command can meet.                     *)
(***************************************************************************)
RuleChoices ==
    {Keep, Lit("x"), Lit(PyNone), Gen("x@example.com"), Gen(PyEmpty), GenField}

GlobalChoices ==
    { EmptyDict,
      (TypeKey("CharField") :> Gen("fake")) @@ (TypeKey("TextField") :> Lit("lorem")),
      (NameKey("email") :> Keep) @@ (TypeKey("CharField") :> Lit(PyZero)),
      (NameKey("email") :> Gen(PyNone)) @@ (NameKey("body") :> Keep) }

\* Scrubbers classes without Meta
PlainClasses(m) ==
    IF TableOf(m) = Customer
    THEN {ClassOf(Merge(a, b)) :
            a \in {EmptyDict} \cup {("name" :> r) : r \in {Keep, GenField}},
            b \in {EmptyDict} \cup {("email" :> r) : r \in RuleChoices}}
         \cup {ClassOf(("email" :> Lit("x")) @@ ("ghost" :> Lit("x")))}
    ELSE {ClassOf(EmptyDict)} \cup {ClassOf("body" :> r) : r \in {Keep, Gen(PyEmpty), GenField}}

\* Scrubbers classes with Meta
MetaClasses(m) ==
    IF TableOf(m) = Customer
    THEN { ClassWithMeta(("name" :> Keep) @@ ("email" :> Gen("x@example.com")), TrimOptions),
           ClassWithMeta(("name" :> Keep) @@ ("email" :> Keep), TrimOptions),
           ClassWithMeta(("email" :> Gen(PyEmpty)), SignalOptions) }
    ELSE { ClassWithMeta(("body" :> Lit("x")), SignalOptions) }

\* the entry of SCRUBBER_MAPPING for model m, if any
MappingChoices(m) ==
    { NoMapping } \cup
    (IF TableOf(m) = Customer
     THEN { (m :> ClassOf(("email" :> Lit("mapped")))), (m :> ClassOf(("name" :> Keep))) }
     ELSE {})

\* what a model can declare: its own Scrubbers class and its mapping entry
Declarations(m) ==
    {[cls |-> c, mapping |-> mp] :
        c \in {NoClass} \cup PlainClasses(m), mp \in MappingChoices(m)}
    \cup {[cls |-> c, mapping |-> NoMapping] : c \in MetaClasses(m)}

AppsListChoices == { {}, {"notes"} }

NonScrubbedChoices == { <<>>, <<"app.Note.body">> }

(***************************************************************************)
(* Command.handle, lines 40-67: the gates and the model selection.         *)
(***************************************************************************)
Return(msg) ==
    /\ stderr' = Append(stderr, msg)
    /\ pc' = "returned"

\* an error that is recorded while the loop goes on to the next model
Raise_AndContinue(e) ==
    /\ exc' = e
    /\ pc' = "loop"

Raise(e) ==
    /\ exc' = e
    /\ pc' = "raised"

\* lines 41-44
EnvGate ==
    /\ pc = "gate"
    /\ IF env \notin AllowedEnvironments
       THEN Return("This command should only be run in our STAGING environment")
       ELSE pc' = "strict" /\ UNCHANGED stderr
    /\ UNCHANGED <<parvars, exc, models, mi, cfgvars, rulevars, dbvars, trimvars>>

\* a check that tolerates one unscrubbed field
StrictViolation_MoreThanOne(sm, lst) == sm /\ Len(lst) > 1

\* lines 47-50: strict mode is on and the validator reports a field
StrictViolation(sm, lst) == sm /\ Len(lst) > 0

\* lines 46-53
StrictCheck ==
    /\ pc = "strict"
    /\ \E sm \in BOOLEAN, lst \in NonScrubbedChoices :
        /\ strict_mode' = sm
        /\ non_scrubbed_field_list' = IF sm THEN lst ELSE <<>>
        /\ IF StrictViolation(sm, lst)
           THEN Return("you have to define a scrubbing policy for every text-based field")
           ELSE pc' = "select" /\ UNCHANGED stderr
    /\ UNCHANGED <<parvars, exc, models, mi, env, kwargs, global_scrubbers, scrubber_apps_list,
                   rulevars, dbvars, trimvars>>

\* lines 55-69
SelectModels ==
    /\ pc = "select"
    /\ \E gs \in GlobalChoices : global_scrubbers' = gs
    /\ \E al \in AppsListChoices : scrubber_apps_list' = al
    /\ IF kwargs.model # NoModelArg
       THEN LET parts == RSplit1(kwargs.model)
            IN  IF Len(parts) # 2
                THEN Raise("ValueError") /\ UNCHANGED models
                ELSE LET found == RegisteredModels(parts[1], parts[2])
                     IN  IF found = {}
                         THEN /\ Raise("CommandError: --model should be defined as <app_label>.<model_name>")
                              /\ UNCHANGED models
                         ELSE /\ models' = <<CHOOSE m \in found : TRUE>>
                              /\ pc' = "loop"
                              /\ UNCHANGED exc
       ELSE /\ models' = AllModels
            /\ pc' = "loop"
            /\ UNCHANGED exc
    /\ UNCHANGED <<parvars, stderr, mi, env, kwargs, strict_mode, non_scrubbed_field_list,
                   rulevars, dbvars, trimvars>>

(***************************************************************************)
(* Command.handle, lines 70-111: the loop head, the rules, the signals.    *)
(***************************************************************************)
\* lines 70-76, and the end of the loop
LoopNext ==
    /\ pc = "loop"
    /\ IF mi = Len(models)
       THEN pc' = "sessions" /\ UNCHANGED mi
       ELSE /\ mi' = mi + 1
            /\ \E skip_unmanaged \in BOOLEAN :
                LET m == models[mi + 1]
                IN  IF \/ IsProxy(m)
                       \/ (skip_unmanaged /\ ~IsManaged(m))
                       \/ (scrubber_apps_list # {} /\ AppName(m) \notin scrubber_apps_list)
                    THEN pc' = "loop"
                    ELSE pc' = "resolve"
    /\ Scrubbers' = NoClass
    /\ scrubber_mapping' = NoMapping
    /\ scrubbers' = EmptyDict
    /\ realized_scrubbers' = EmptyDict
    /\ options' = NoOptions
    /\ UNCHANGED <<parvars, stderr, exc, models, cfgvars, warned, dbvars, trimvars>>

\* a loop that processes a model without any rule too
SkipModel_Never(s) == FALSE

\* lines 94-95: if not scrubbers: continue
SkipModel(s) == DOMAIN s = {}

\* lines 78-95
ResolveScrubbers ==
    /\ pc = "resolve"
    /\ \E d \in Declarations(model) :
        LET cls == d.cls
            mp == d.mapping
            classes == (model :> cls)
        IN  /\ Scrubbers' = cls
            /\ scrubber_mapping' = mp
            /\ warned' = warned \cup
                   {<<model, k>> : k \in UnknownScrubberFields(model, mp, classes)}
            /\ scrubbers' =
                   WithoutKeptFields(ResolvedScrubbers(model, global_scrubbers, mp, classes))
    /\ pc' = IF SkipModel(scrubbers') THEN "loop" ELSE "realize"
    /\ UNCHANGED <<parvars, stderr, exc, models, mi, cfgvars, realized_scrubbers, options,
                   dbvars, trimvars>>

\* line 97
RealizeScrubbers ==
    /\ pc = "realize"
    /\ realized_scrubbers' = _filter_out_disabled(_call_callables(scrubbers))
    /\ pc' = "options"
    /\ UNCHANGED <<parvars, stderr, exc, models, mi, cfgvars, Scrubbers, scrubber_mapping,
                   scrubbers, options, warned, dbvars, trimvars>>

\* a registry that holds only the signals of the model being processed
DisconnectedAfter_OnlyCurrent(d, opts) ==
    IF "disconnect_signals" \in opts.keys THEN opts.disconnect_signals ELSE d

\* lines 103-111: model_signal.disconnect for every entry of the option
DisconnectedAfter(d, opts) ==
    IF "disconnect_signals" \in opts.keys THEN d \cup opts.disconnect_signals ELSE d

\* lines 101-113
DisconnectSignals ==
    /\ pc = "options"
    /\ options' = _get_options(model, (model :> Scrubbers))
    /\ disconnected' = DisconnectedAfter(disconnected, options')
    /\ pc' = IF "trim_table" \in options'.keys THEN "trim" ELSE "update"
    /\ UNCHANGED <<parvars, stderr, exc, models, mi, cfgvars, Scrubbers, scrubber_mapping,
                   scrubbers, realized_scrubbers, warned,
                   rows, orders, vals, sessions, fake_data, trimvars>>

(***************************************************************************)
(* _large_delete, lines 157-188.  A delete target is <<kind, pk>>: the     *)
(* orders of a row, a row, or the whole candidate queryset.                *)
(***************************************************************************)
\* a filter with __lte in place of __lt
Candidates_Lte == {pk \in rows[table] : Created(pk) <= cutoff}

\* lines 114-115: the rows the trim filter selects now (the queryset is lazy)
Candidates == {pk \in rows[table] : Created(pk) < cutoff}

\* Paginator.num_pages (allow_empty_first_page: one page when count is 0)
NumPages == IF count = 0 THEN 1 ELSE (count + PageSize - 1) \div PageSize

\* the i-th smallest element of S
Nth(S, i) == CHOOSE x \in S : Cardinality({y \in S : y < x}) = i - 1

\* Paginator.page(n), evaluated: the slice [bottom:top] of the queryset as
\* it is now, in pk order
PageItems(n) ==
    LET bottom == (n - 1) * PageSize
        top0 == bottom + PageSize
        top == IF top0 >= count THEN count ELSE top0
        have == Cardinality(Candidates)
        last == IF top < have THEN top ELSE have
    IN  [i \in 1 .. (IF last > bottom THEN last - bottom ELSE 0) |->
            Nth(Candidates, bottom + i)]

QuerysetTarget == <<"queryset", 0>>

\* the rows a delete of target t would remove
TargetRows(t) ==
    CASE t[1] = "orders" -> {t[2]} \cap orders
      [] t[1] = "row" -> {t[2]} \cap rows[table]
      [] OTHER -> Candidates

\* what objs.delete() can do: nothing to delete never fails
DeleteOutcomes(t) ==
    IF TargetRows(t) = {} THEN {"ok"} ELSE {"ok", "protected", "error"}

RowsAfterDelete(t) ==
    IF t[1] = "orders" THEN rows ELSE [rows EXCEPT ![table] = @ \ TargetRows(t)]

\* a deleted Customer row takes its orders with it
OrdersAfterDelete(t) ==
    IF t[1] = "orders" \/ table = Customer THEN orders \ TargetRows(t) ELSE orders

\* objs.annotate(...): a model instance has no such method; on a queryset it
\* returns a new queryset, which line 166 drops
AnnotateRaises(t) == t[1] = "row"

\* whether allow_hard_delete is in effect on objs after line 166
FlagAfterAnnotate(t) == FALSE

DeleteCall(t, n, outcome) ==
    [target |-> t, try |-> n, flag |-> IF n = 2 THEN FlagAfterAnnotate(t) ELSE FALSE,
     outcome |-> outcome]

\* lines 113-117 and 158-159, and the first use of paginator.page_range
TrimStart ==
    /\ pc = "trim"
    /\ cutoff' = Now - kwargs.older_than
    /\ count' = Cardinality({pk \in rows[table] : Created(pk) < cutoff'})
    /\ page_num' = 1
    /\ page' = <<>>
    /\ idx' = 0
    /\ futures' = NoFutures
    /\ pc' = "dep_page"
    /\ UNCHANGED <<parvars, stderr, exc, models, mi, cfgvars, rulevars, dbvars, work,
                   last_delete, log, submitted>>

\* lines 172-175 / 180-183: the head of a page loop
PageStep(here, after) ==
    /\ pc = here \o "_page"
    /\ IF page_num > NumPages
       THEN /\ page_num' = 1
            /\ pc' = after
            /\ UNCHANGED <<page, idx, futures>>
       ELSE /\ page' = PageItems(page_num)
            /\ idx' = 1
            /\ futures' = NoFutures
            /\ pc' = here \o "_submit"
            /\ UNCHANGED page_num
    /\ UNCHANGED <<parvars, stderr, exc, models, mi, cfgvars, rulevars, dbvars, cutoff, count,
                   work, last_delete, log, submitted>>

\* one more submit call counted for pk
Submit(s, pk) == (pk :> (IF pk \in DOMAIN s THEN s[pk] + 1 ELSE 1)) @@ s

\* executor.submit(_force_delete, ...) for the next item of the page
SubmitStep(here, kind, relation) ==
    /\ pc = here \o "_submit"
    /\ IF idx > Len(page)
       THEN /\ pc' = here \o "_wait"
            /\ UNCHANGED <<idx, futures, work, submitted>>
       ELSE /\ idx' = idx + 1
            /\ pc' = pc
            /\ IF relation
               THEN LET t == <<kind, page[idx]>>
                    IN  /\ work' = (t :> [st |-> "pending", page |-> page_num]) @@ work
                        /\ futures' = (t :> [done |-> FALSE, exception |-> FALSE]) @@ futures
                        /\ submitted' = IF kind = "row"
                                        THEN Submit(submitted, page[idx])
                                        ELSE submitted
               ELSE UNCHANGED <<futures, work, submitted>>
    /\ UNCHANGED <<parvars, stderr, exc, models, mi, cfgvars, rulevars, dbvars, cutoff, count,
                   page_num, page, last_delete, log>>

\* a wait that returns at once
AllDone_NoWait(fs) == TRUE

\* concurrent.futures.wait(futures)
AllDone(fs) == \A t \in DOMAIN fs : fs[t].done

WaitStep(here) ==
    /\ pc = here \o "_wait"
    /\ AllDone(futures)
    /\ page_num' = page_num + 1
    /\ pc' = here \o "_page"
    /\ UNCHANGED <<parvars, stderr, exc, models, mi, cfgvars, rulevars, dbvars, cutoff, count,
                   page, idx, futures, work, last_delete, log, submitted>>

DepPage == PageStep("dep", "row_page")

DepSubmit == SubmitStep("dep", "orders", HasOrdersRelation(model))

DepWait == WaitStep("dep")

RowPage == PageStep("row", "pool_exit")

RowSubmit == SubmitStep("row", "row", TRUE)

RowWait == WaitStep("row")

\* the end of the with block: ThreadPoolExecutor.__exit__ waits for the workers
PoolExit ==
    /\ pc = "pool_exit"
    /\ DOMAIN work = {}
    /\ pc' = "sweep"
    /\ UNCHANGED <<parvars, stderr, exc, models, mi, cfgvars, rulevars, dbvars, trimvars>>

(***************************************************************************)
(* _force_delete, lines 161-169, run by a worker thread for target t.      *)
(***************************************************************************)
\* the work item ends: the future is done and holds the exception, if any
Finish(t, raised) ==
    /\ work' = Restrict(work, DOMAIN work \ {t})
    /\ futures' = IF t \in DOMAIN futures
                  THEN [futures EXCEPT ![t] = [done |-> TRUE, exception |-> raised]]
                  ELSE futures

\* an inner handler that catches ProtectedError only
CaughtOnRetry_OnlyProtected(outcome) == outcome = "protected"

\* an inner handler that catches database errors but not ProtectedError
CaughtOnRetry_NotProtected(outcome) == outcome = "error"

\* line 168: except Exception catches whatever the retry raises
CaughtOnRetry(outcome) == outcome \in {"protected", "error"}

\* lines 162-164: the first objs.delete()
TaskFirstDelete(t) ==
    /\ t \in DOMAIN work
    /\ work[t].st = "pending"
    /\ \E outcome \in DeleteOutcomes(t) :
        /\ last_delete' = DeleteCall(t, 1, outcome)
        /\ CASE outcome = "ok" ->
                  /\ rows' = RowsAfterDelete(t)
                  /\ orders' = OrdersAfterDelete(t)
                  /\ Finish(t, FALSE)
             [] outcome = "protected" ->
                  /\ work' = [work EXCEPT ![t].st = "retry"]
                  /\ UNCHANGED <<rows, orders, futures>>
             [] OTHER ->
                  /\ Finish(t, TRUE)
                  /\ UNCHANGED <<rows, orders>>
    /\ UNCHANGED <<parvars, pc, stderr, exc, models, mi, cfgvars, rulevars, vals, sessions,
                   fake_data, disconnected, cutoff, count, page_num, page, idx, log,
                   submitted>>

\* lines 165-169: the handler of ProtectedError
TaskRetry(t) ==
    /\ t \in DOMAIN work
    /\ work[t].st = "retry"
    /\ IF AnnotateRaises(t)
       THEN /\ log' = log \cup {t}
            /\ Finish(t, FALSE)
            /\ UNCHANGED <<rows, orders, last_delete>>
       ELSE \E outcome \in DeleteOutcomes(t) :
            /\ last_delete' = DeleteCall(t, 2, outcome)
            /\ CASE outcome = "ok" ->
                      /\ rows' = RowsAfterDelete(t)
                      /\ orders' = OrdersAfterDelete(t)
                      /\ Finish(t, FALSE)
                      /\ UNCHANGED log
                 [] outcome # "ok" /\ CaughtOnRetry(outcome) ->
                      /\ log' = log \cup {t}
                      /\ Finish(t, FALSE)
                      /\ UNCHANGED <<rows, orders>>
                 [] OTHER ->
                      /\ Finish(t, TRUE)
                      /\ UNCHANGED <<rows, orders, log>>
    /\ UNCHANGED <<parvars, pc, stderr, exc, models, mi, cfgvars, rulevars, vals, sessions,
                   fake_data, disconnected, cutoff, count, page_num, page, idx,
                   submitted>>

Worker == \E t \in DOMAIN work : TaskFirstDelete(t) \/ TaskRetry(t)

(***************************************************************************)
(* Line 187: _force_delete(queryset), run by the main thread.              *)
(***************************************************************************)
\* line 188: _large_delete returns, its locals are gone
ReturnFromTrim ==
    /\ cutoff' = 0
    /\ count' = 0
    /\ page_num' = 0
    /\ page' = <<>>
    /\ idx' = 0
    /\ futures' = NoFutures
    /\ submitted' = NoSubmitted

SweepFirstDelete ==
    /\ pc = "sweep"
    /\ \E outcome \in DeleteOutcomes(QuerysetTarget) :
        /\ last_delete' = DeleteCall(QuerysetTarget, 1, outcome)
        /\ CASE outcome = "ok" ->
                  /\ rows' = RowsAfterDelete(QuerysetTarget)
                  /\ orders' = OrdersAfterDelete(QuerysetTarget)
                  /\ pc' = "update"
                  /\ ReturnFromTrim
                  /\ UNCHANGED exc
             [] outcome = "protected" ->
                  /\ pc' = "sweep_retry"
                  /\ UNCHANGED <<rows, orders, exc, cutoff, count, page_num, page, idx,
                                 futures, submitted>>
             [] OTHER ->
                  /\ Raise("Exception")
                  /\ UNCHANGED <<rows, orders, cutoff, count, page_num, page, idx,
                                 futures, submitted>>
    /\ UNCHANGED <<parvars, stderr, models, mi, cfgvars, rulevars, vals, sessions, fake_data,
                   disconnected, work, log>>

SweepRetry ==
    /\ pc = "sweep_retry"
    /\ \E outcome \in DeleteOutcomes(QuerysetTarget) :
        /\ last_delete' = DeleteCall(QuerysetTarget, 2, outcome)
        /\ CASE outcome = "ok" ->
                  /\ rows' = RowsAfterDelete(QuerysetTarget)
                  /\ orders' = OrdersAfterDelete(QuerysetTarget)
                  /\ pc' = "update"
                  /\ UNCHANGED <<log, exc>>
             [] outcome # "ok" /\ CaughtOnRetry(outcome) ->
                  /\ log' = log \cup {QuerysetTarget}
                  /\ pc' = "update"
                  /\ UNCHANGED <<rows, orders, exc>>
             [] OTHER ->
                  /\ Raise("Exception")
                  /\ UNCHANGED <<rows, orders, log>>
    /\ ReturnFromTrim
    /\ UNCHANGED <<parvars, stderr, models, mi, cfgvars, rulevars, vals, sessions, fake_data,
                   disconnected, work>>

(***************************************************************************)
(* Command.handle, lines 119-140: the bulk update and the truncations.     *)
(***************************************************************************)
\* the rows records.update() writes
UpdateRows ==
    rows[table] \ (IF "exclude" \in options.keys THEN options.exclude ELSE {})

\* an UPDATE that sets nothing or matches nothing cannot fail
UpdateOutcomes ==
    IF DOMAIN realized_scrubbers = {} \/ UpdateRows = {}
    THEN {"ok"}
    ELSE {"ok", "IntegrityError", "DataError"}

ValsAfterUpdate ==
    [vals EXCEPT ![table] =
        [pk \in DOMAIN @ |-> IF pk \in UpdateRows
                             THEN Merge(@[pk], realized_scrubbers)
                             ELSE @[pk]]]

\* lines 119-132; the record of the trim that preceded it ends here
BulkUpdate ==
    /\ pc = "update"
    /\ \E outcome \in UpdateOutcomes :
        CASE outcome = "ok" ->
                /\ vals' = ValsAfterUpdate
                /\ pc' = "loop"
                /\ UNCHANGED exc
          [] outcome = "IntegrityError" ->
                /\ Raise("CommandError: Integrity error while scrubbing")
                /\ UNCHANGED vals
          [] OTHER ->
                /\ Raise("CommandError: DataError while scrubbing")
                /\ UNCHANGED vals
    /\ last_delete' = NoDelete
    /\ log' = {}
    /\ UNCHANGED <<parvars, stderr, models, mi, cfgvars, rulevars, rows, orders, sessions,
                   fake_data, disconnected, cutoff, count, page_num, page, idx,
                   futures, work, submitted>>

\* a truncation that ignores --keep-sessions
TruncateSessions_Always ==
    /\ pc = "sessions"
    /\ sessions' = {}
    /\ pc' = "fake_data"
    /\ UNCHANGED <<parvars, stderr, exc, models, mi, cfgvars, rulevars, rows, orders, vals,
                   fake_data, disconnected, trimvars>>

\* lines 134-136
TruncateSessions ==
    /\ pc = "sessions"
    /\ sessions' = IF ~kwargs.keep_sessions THEN {} ELSE sessions
    /\ pc' = "fake_data"
    /\ UNCHANGED <<parvars, stderr, exc, models, mi, cfgvars, rulevars, rows, orders, vals,
                   fake_data, disconnected, trimvars>>

\* lines 138-140
TruncateFakeData ==
    /\ pc = "fake_data"
    /\ fake_data' = IF kwargs.remove_fake_data THEN {} ELSE fake_data
    /\ pc' = "done"
    /\ UNCHANGED <<parvars, stderr, exc, models, mi, cfgvars, rulevars, rows, orders, vals,
                   sessions, disconnected, trimvars>>

Next ==
    \/ EnvGate
    \/ StrictCheck
    \/ SelectModels
    \/ LoopNext
    \/ ResolveScrubbers
    \/ RealizeScrubbers
    \/ DisconnectSignals
    \/ TrimStart
    \/ DepPage
    \/ DepSubmit
    \/ DepWait
    \/ RowPage
    \/ RowSubmit
    \/ RowWait
    \/ PoolExit
    \/ Worker
    \/ SweepFirstDelete
    \/ SweepRetry
    \/ BulkUpdate
    \/ TruncateSessions
    \/ TruncateFakeData

Spec == Init /\ [][Next]_vars

(***************************************************************************)
(* trim_data and scrub_data_parallel: Command.handle and the scrub_data    *)
(* subprocesses it runs in a ProcessPoolExecutor.                          *)
(***************************************************************************)
\* the largest number of model lines scrub_validation prints
MaxModelLines == 3

\* max_workers of trim_data's pool (10 in the source, scaled down)
MaxWorkers == 2

\* os.cpu_count(): the pool size when max_workers is not given
CpuCount == 3

Commands == {"trim_data", "scrub_data_parallel"}

\* a line of output, as the pieces the pattern tells apart
ModelLine(name) == <<"Model '", name, "'", " has unscrubbed fields">>

IndentedLine(name) == <<" ", "Model '", name, "'">>

HeaderLine == <<"Validation result:">>

EmptyLine == <<>>

\* [a-zA-Z0-9_.]+
NameChars(name) == name \in {"app.Customer", "notes.Note"}

\* re.search(r"^Model '([a-zA-Z0-9_.]+)'.*", line)
Matches(line) ==
    /\ Len(line) >= 3
    /\ line[1] = "Model '"
    /\ NameChars(line[2])
    /\ line[3] = "'"

\* lines 39-41: the names of the matching lines, in order
RECURSIVE MatchedModels(_)
MatchedModels(lines) ==
    IF lines = <<>> THEN <<>>
    ELSE (IF Matches(Head(lines)) THEN <<Head(lines)[2]>> ELSE <<>>)
             \o MatchedModels(Tail(lines))

LineModel(i) == IF i % 2 = 1 THEN "app.Customer" ELSE "notes.Note"

\* scrub_validation().split('\n'): a header, a line the pattern must not
\* match, n model lines and the empty string after the last newline
ValidationOutput(n) ==
    <<HeaderLine, IndentedLine("app.Customer")>>
        \o [i \in 1 .. n |-> ModelLine(LineModel(i))] \o <<EmptyLine>>

ValidationOutputs == {ValidationOutput(n) : n \in 0 .. MaxModelLines}

\* scrub_data's add_arguments, lines 28-38
ScrubDataArguments == {"--model", "--keep-sessions", "--remove-fake-data", "--older-than"}

\* the command line built by scrub_data(model, older_than[, trim_only])
CommandLine(cmd, trim_only) ==
    {"--model", "--older-than", "--remove-fake-data"}
        \cup (IF cmd = "trim_data" /\ trim_only THEN {"--trim-only"} ELSE {})

\* a pool as large as the machine, whatever the command
PoolSize_CpuCount(cmd) == CpuCount

\* ProcessPoolExecutor(max_workers=10) / ProcessPoolExecutor()
PoolSize(cmd) == IF cmd = "trim_data" THEN MaxWorkers ELSE CpuCount

Busy(p) == p.st \notin {"queued", "exited"}

Running(ps) == Cardinality({i \in DOMAIN ps : Busy(ps[i])})

NewProc(name, argv) ==
    [model |-> name, argv |-> argv, st |-> "queued", rc |-> -1]

Exited(p, rc) == [p EXCEPT !.st = "exited", !.rc = rc]

ParInit ==
    /\ command \in Commands
    /\ par_kwargs \in [older_than : {DefaultOlderThan},
                       trim_only : IF command = "trim_data" THEN BOOLEAN ELSE {FALSE}]
    /\ par_pc = "validate"
    /\ stdout = <<>>
    /\ par_models = <<>>
    /\ procs = <<>>
    /\ pc = "off"
    /\ env = "STAGING"
    /\ kwargs = [model |-> NoModelArg, keep_sessions |-> FALSE,
                 remove_fake_data |-> TRUE, older_than |-> DefaultOlderThan]
    /\ InitState

\* what the orchestrators and their subprocesses never touch in this model:
\* handle's own state of a scrub_data started from the command line
scrubvars == <<pc, stderr, exc, models, mi, cfgvars, rulevars, rows, orders, vals,
               disconnected, trimvars>>

\* lines 35-43: scrub_validation is run and its output matched line by line
Validate ==
    /\ par_pc = "validate"
    /\ \E out \in ValidationOutputs :
        /\ stdout' = out
        /\ par_models' = MatchedModels(out)
    /\ par_pc' = "submit"
    /\ UNCHANGED <<command, par_kwargs, procs, sessions, fake_data, scrubvars>>

\* lines 46-50: one executor.submit per element of models
SubmitModel ==
    /\ par_pc = "submit"
    /\ IF Len(procs) = Len(par_models)
       THEN /\ par_pc' = "executor_exit"
            /\ UNCHANGED procs
       ELSE /\ procs' = Append(procs, NewProc(par_models[Len(procs) + 1],
                                              CommandLine(command, par_kwargs.trim_only)))
            /\ UNCHANGED par_pc
    /\ UNCHANGED <<command, par_kwargs, stdout, par_models, sessions, fake_data,
                   scrubvars>>

\* an exit that does not wait for the pool
AllExited_NoWait(ps) == TRUE

\* ProcessPoolExecutor.__exit__: shutdown(wait=True)
AllExited(ps) == \A i \in DOMAIN ps : ps[i].st = "exited"

\* the end of the with block, and of handle
ExecutorExit ==
    /\ par_pc = "executor_exit"
    /\ AllExited(procs)
    /\ par_pc' = "returned"
    /\ UNCHANGED <<command, par_kwargs, stdout, par_models, procs, sessions, fake_data,
                   scrubvars>>

\* a free worker process takes the oldest queued call and runs
\* subprocess.run(scrub_data)
ProcStart(i) ==
    /\ procs[i].st = "queued"
    /\ \A j \in 1 .. (i - 1) : procs[j].st # "queued"
    /\ Running(procs) < PoolSize(command)
    /\ procs' = [procs EXCEPT ![i].st = "argparse"]
    /\ UNCHANGED <<sessions, fake_data>>

\* the subprocess parses its command line against scrub_data's arguments:
\* an unknown argument ends it with exit status 2
ProcArgparse(i) ==
    /\ procs[i].st = "argparse"
    /\ procs' = [procs EXCEPT ![i] =
                    IF procs[i].argv \subseteq ScrubDataArguments
                    THEN [@ EXCEPT !.st = "handle"]
                    ELSE Exited(@, 2)]
    /\ UNCHANGED <<sessions, fake_data>>

\* scrub_data's handle up to the work on the model (lines 40-111): it
\* returns at a gate, raises on the model lookup, skips the model, or goes
\* on to the trim or straight to the update
ProcHandle(i) ==
    /\ procs[i].st = "handle"
    /\ \E outcome \in {"returned", "raised", "skip", "trim", "update"} :
        procs' = [procs EXCEPT ![i] =
                    CASE outcome = "returned" -> Exited(@, 0)
                      [] outcome = "raised" -> Exited(@, 1)
                      [] outcome = "skip" -> [@ EXCEPT !.st = "sessions"]
                      [] OTHER -> [@ EXCEPT !.st = outcome]]
    /\ UNCHANGED <<sessions, fake_data>>

\* scrub_data's trim (lines 113-117): it returns, or the sweep raises
ProcTrim(i) ==
    /\ procs[i].st = "trim"
    /\ \E raises \in BOOLEAN :
        procs' = [procs EXCEPT ![i] =
                    IF raises THEN Exited(@, 1) ELSE [@ EXCEPT !.st = "update"]]
    /\ UNCHANGED <<sessions, fake_data>>

\* scrub_data's bulk update (lines 119-132): applied, or a CommandError
ProcUpdate(i) ==
    /\ procs[i].st = "update"
    /\ \E raises \in BOOLEAN :
        procs' = [procs EXCEPT ![i] =
                    IF raises THEN Exited(@, 1) ELSE [@ EXCEPT !.st = "sessions"]]
    /\ UNCHANGED <<sessions, fake_data>>

\* scrub_data lines 134-136, in the subprocess
ProcSessions(i) ==
    /\ procs[i].st = "sessions"
    /\ sessions' = IF "--keep-sessions" \notin procs[i].argv THEN {} ELSE sessions
    /\ procs' = [procs EXCEPT ![i].st = "fake_data"]
    /\ UNCHANGED fake_data

\* scrub_data lines 138-140, in the subprocess, and its exit
ProcFakeData(i) ==
    /\ procs[i].st = "fake_data"
    /\ fake_data' = IF "--remove-fake-data" \in procs[i].argv THEN {} ELSE fake_data
    /\ procs' = [procs EXCEPT ![i] = Exited(@, 0)]
    /\ UNCHANGED sessions

\* a step of one of the pool's subprocesses
Subprocess ==
    /\ \E i \in DOMAIN procs :
        \/ ProcStart(i)
        \/ ProcArgparse(i)
        \/ ProcHandle(i)
        \/ ProcTrim(i)
        \/ ProcUpdate(i)
        \/ ProcSessions(i)
        \/ ProcFakeData(i)
    /\ UNCHANGED <<command, par_pc, par_kwargs, stdout, par_models, scrubvars>>

ParNext ==
    \/ Validate
    \/ SubmitModel
    \/ ExecutorExit
    \/ Subprocess

ParSpec == ParInit /\ [][ParNext]_vars

\* every process that can take a step eventually takes one
ParFairSpec == ParSpec /\ WF_vars(ParNext)

(***************************************************************************)
(* Vocabulary of the properties.                                           *)
(***************************************************************************)
TrimPcs == {"dep_page", "dep_submit", "dep_wait", "row_page", "row_submit", "row_wait",
            "pool_exit", "sweep", "sweep_retry"}

\* the bulk update of the current model has just been applied
JustUpdated == pc = "loop" /\ DOMAIN scrubbers # {}

\* handle's locals of the current model are set
RulesResolved ==
    /\ mi > 0
    /\ pc \in {"realize", "options", "trim", "update"} \cup TrimPcs \/ JustUpdated

RulesRealized ==
    /\ mi > 0
    /\ pc \in {"options", "trim", "update"} \cup TrimPcs \/ JustUpdated

\* the table of rules before the Keep entries are removed
ResolvedNow ==
    ResolvedScrubbers(model, global_scrubbers, scrubber_mapping, (model :> Scrubbers))

\* nothing in the database or the signal registry has been changed
NothingMutated ==
    /\ rows = rows0
    /\ orders = orders0
    /\ vals = vals0
    /\ sessions = sessions0
    /\ fake_data = fake_data0
    /\ disconnected = {}

(***************************************************************************)
(* C1.  A field whose resolved rule is Keep is never a key of the realized *)
(* mapping handed to the bulk update, and its stored value is the original *)
(* one in every row, also after the update.                                *)
(***************************************************************************)
C1_KeepNeverUpdated ==
    RulesRealized =>
        \A f \in DOMAIN ResolvedNow :
            ResolvedNow[f] = Keep =>
                /\ f \notin DOMAIN realized_scrubbers
                /\ \A pk \in DOMAIN vals[table] : vals[table][pk][f] = Orig

\* the end-to-end case: name kept, email rewritten by a callable
C1_Witness ==
    /\ JustUpdated
    /\ table = Customer
    /\ "name" \in DOMAIN ResolvedNow
    /\ ResolvedNow["name"] = Keep
    /\ \E pk \in rows[Customer] :
        /\ vals[Customer][pk]["email"] = Lit("x@example.com")
        /\ vals[Customer][pk]["name"] = Orig

(***************************************************************************)
(* C2.  The rule of a field is the model-declared one if there is one,     *)
(* else the global rule under the field's name, else the global rule under *)
(* the field's type; a field in none of the three has no rule and keeps    *)
(* its stored value.                                                       *)
(***************************************************************************)
C2_Declared ==
    IF model \in DOMAIN scrubber_mapping THEN scrubber_mapping[model] ELSE Scrubbers

C2_Precedence ==
    RulesResolved =>
        \A f \in ModelFields(model) :
            LET byModel == C2_Declared.has /\ f \in DOMAIN C2_Declared.attrs
                byName == NameKey(f) \in DOMAIN global_scrubbers
                byType == TypeKey(FieldType(model, f)) \in DOMAIN global_scrubbers
                rule == IF byModel THEN C2_Declared.attrs[f]
                        ELSE IF byName THEN global_scrubbers[NameKey(f)]
                        ELSE global_scrubbers[TypeKey(FieldType(model, f))]
            IN  IF byModel \/ byName \/ byType
                THEN IF rule = Keep
                     THEN f \notin DOMAIN scrubbers
                     ELSE f \in DOMAIN scrubbers /\ scrubbers[f] = rule
                ELSE /\ f \notin DOMAIN scrubbers
                     /\ f \notin DOMAIN realized_scrubbers
                     /\ \A pk \in DOMAIN vals[table] : vals[table][pk][f] = Orig

\* all three sources name email, and the model-declared rule is the one used;
\* name is in the type table only
C2_Witness ==
    /\ RulesResolved
    /\ table = Customer
    /\ C2_Declared.has
    /\ "email" \in DOMAIN C2_Declared.attrs
    /\ "name" \notin DOMAIN C2_Declared.attrs
    /\ "name" \in DOMAIN scrubbers
    /\ NameKey("email") \in DOMAIN global_scrubbers
    /\ TypeKey("CharField") \in DOMAIN global_scrubbers
    /\ "email" \in DOMAIN scrubbers
    /\ scrubbers["email"] = C2_Declared.attrs["email"]
    /\ scrubbers["email"] # global_scrubbers[NameKey("email")]
    /\ scrubbers["name"] = global_scrubbers[TypeKey("CharField")]

(***************************************************************************)
(* C3.  As claimed: the realized value of a rule is the result of invoking *)
(* it when it is invocable and the rule itself otherwise, and a field      *)
(* whose realized value is falsy is not in the mapping of the update.      *)
(***************************************************************************)
C3_FalsyRealizedRemoved ==
    RulesRealized =>
        \A f \in DOMAIN scrubbers :
            LET value == IF Callable(scrubbers[f]) THEN Call(scrubbers[f], f)
                         ELSE scrubbers[f]
            IN  IF Truthy(value)
                THEN f \in DOMAIN realized_scrubbers /\ realized_scrubbers[f] = value
                ELSE f \notin DOMAIN realized_scrubbers

(***************************************************************************)
(* C4.  Strict mode with at least one unscrubbed text field reported: the  *)
(* command has returned, and no signal, row, session or fake-data entry    *)
(* has been touched.                                                       *)
(***************************************************************************)
C4_StrictAbortsBeforeMutation ==
    (strict_mode /\ Len(non_scrubbed_field_list) > 0) =>
        /\ pc = "returned"
        /\ exc = "none"
        /\ Len(stderr) = 1
        /\ NothingMutated

C4_Witness ==
    /\ strict_mode
    /\ Len(non_scrubbed_field_list) > 0
    /\ pc = "returned"
    /\ ~kwargs.keep_sessions

(***************************************************************************)
(* C5.  Outside STAGING, DEVELOP and NONPROD the command writes to stderr  *)
(* and returns without raising, and nothing is changed, whatever the       *)
(* flags.                                                                  *)
(***************************************************************************)
C5_EnvironmentGate ==
    env \notin {"STAGING", "DEVELOP", "NONPROD"} =>
        /\ pc \in {"gate", "returned"}
        /\ pc = "returned" => Len(stderr) = 1
        /\ exc = "none"
        /\ NothingMutated

C5_Witness ==
    /\ env = "PRODUCTION"
    /\ pc = "returned"
    /\ Len(stderr) = 1
    /\ ~kwargs.keep_sessions
    /\ kwargs.remove_fake_data

(***************************************************************************)
(* C6.  The trim deletes only rows whose trim attribute is strictly less   *)
(* than now - older_than: every row at or after that cutoff is still       *)
(* stored, and the cutoff does not move while the trim runs.               *)
(***************************************************************************)
C6_TrimOnlyOlderRows ==
    /\ \A t \in {Customer, Note} : \A pk \in rows0[t] :
          Created(pk) >= Now - kwargs.older_than => pk \in rows[t]
    /\ pc \in TrimPcs => cutoff = Now - kwargs.older_than

\* the trim has returned, every older row is gone and the row exactly at the
\* cutoff is still there
C6_Witness ==
    /\ pc = "update"
    /\ "trim_table" \in options.keys
    /\ kwargs.older_than = DefaultOlderThan + 1
    /\ rows[Customer] = {pk \in CustomerPks : Created(pk) >= Now - kwargs.older_than}
    /\ \E pk \in rows[Customer] : Created(pk) = Now - kwargs.older_than

(***************************************************************************)
(* C7.  A delete rejected by a protective constraint on the first attempt  *)
(* and on the retry: the warning is logged, the target is still stored,    *)
(* nothing is raised, the task's future completes so that the page wait    *)
(* returns, and a trim that has logged warnings still ends with the sweep. *)
(***************************************************************************)
DoubleRejected == last_delete.try = 2 /\ last_delete.outcome = "protected"

\* something of target t is still in the database
StillStored(t) ==
    CASE t[1] = "orders" -> t[2] \in orders
      [] t[1] = "row" -> t[2] \in rows[table]
      [] OTHER -> \E pk \in rows[table] : Created(pk) < Now - kwargs.older_than

C7_RejectedTwiceIsSkipped ==
    /\ DoubleRejected =>
          /\ last_delete.target \in log
          /\ StillStored(last_delete.target)
          /\ exc # "Exception"
          /\ pc \in TrimPcs \cup {"update"} => exc = "none"
          /\ last_delete.target \notin DOMAIN work
          /\ last_delete.target \in DOMAIN futures =>
                /\ futures[last_delete.target].done
                /\ ~futures[last_delete.target].exception
    /\ \A t \in DOMAIN futures : ~futures[t].done => t \in DOMAIN work
    /\ (pc = "update" /\ "trim_table" \in options.keys) =>
          last_delete.target = QuerysetTarget

\* the orders of row 1 were rejected twice, the trim went on to delete row 2
\* and reached the sweep
C7_Witness ==
    /\ pc = "sweep"
    /\ <<"orders", 1>> \in log
    /\ 1 \in orders
    /\ 2 \notin rows[Customer]
    /\ exc = "none"

C7_WitnessStep ==
    /\ last_delete = DeleteCall(<<"orders", 1>>, 2, "protected")
    /\ pc = "dep_wait"

(***************************************************************************)
(* C8.  As claimed: when the handling of a protective rejection ends, one  *)
(* further delete of the same target has been made with the hard-delete    *)
(* override in effect, and if it succeeded the target is gone.             *)
(***************************************************************************)
C8_RetryMade(t) ==
    /\ last_delete'.target = t
    /\ last_delete'.try = 2
    /\ last_delete'.flag
    /\ last_delete'.outcome = "ok" => ~StillStored(t)'

C8_RetryWithOverride ==
    [][ /\ \A t \in DOMAIN work :
              (work[t].st = "retry" /\ t \notin DOMAIN work') => C8_RetryMade(t)
        /\ (pc = "sweep_retry" /\ pc' # pc) => C8_RetryMade(QuerysetTarget) ]_vars

(***************************************************************************)
(* C9.  As claimed: an unexpected exception of a forced delete, on either  *)
(* attempt, is logged and does not leave the trim.                         *)
(***************************************************************************)
C9_EveryExceptionCaughtAndLogged ==
    last_delete.outcome = "error" =>
        /\ last_delete.target \in log
        /\ exc # "Exception"

(***************************************************************************)
(* C9, amended.  Whatever the retry raises is caught and logged and does   *)
(* not leave the trim.  An exception other than ProtectedError on the      *)
(* first attempt is not caught by _force_delete: in a worker task it ends  *)
(* in the task's future, not logged and not propagated; in the final sweep *)
(* it leaves the trim.  Nothing else makes the trim raise.                 *)
(***************************************************************************)
C9_OnlyRetryExceptionsCaught ==
    /\ (last_delete.try = 2 /\ last_delete.outcome # "ok") =>
          /\ last_delete.target \in log
          /\ exc # "Exception"
    /\ (last_delete.try = 1 /\ last_delete.outcome = "error"
            /\ last_delete.target # QuerysetTarget) =>
          /\ last_delete.target \notin log
          /\ exc # "Exception"
          /\ last_delete.target \in DOMAIN futures =>
                /\ futures[last_delete.target].done
                /\ futures[last_delete.target].exception
    /\ (pc = "raised" /\ exc = "Exception") <=>
          last_delete = DeleteCall(QuerysetTarget, 1, "error")

\* the retry of the final sweep raised an unexpected exception, and the trim
\* returned normally with the warning logged
C9_Witness ==
    /\ pc = "update"
    /\ last_delete = DeleteCall(QuerysetTarget, 2, "error")
    /\ QuerysetTarget \in log
    /\ exc = "none"

(***************************************************************************)
(* C10.  The phases of _large_delete are ordered: unfinished work items    *)
(* all belong to the page being processed and to the running phase, so no  *)
(* row delete exists while an orders delete is unfinished or the orders    *)
(* loop is running; the orders loop is left only after its last page with  *)
(* no work left; the sweep runs with no work item left.                    *)
(***************************************************************************)
C10_WorkOfCurrentPage ==
    /\ \A t \in DOMAIN work :
          /\ work[t].page = page_num
          /\ t[1] = "orders" => pc \in {"dep_submit", "dep_wait"}
          /\ t[1] = "row" => pc \in {"row_submit", "row_wait"}
    /\ pc \in {"sweep", "sweep_retry"} => DOMAIN work = {}
    /\ last_delete.target = QuerysetTarget => DOMAIN work = {}
    /\ last_delete.target[1] = "row" =>
          pc \notin {"trim", "dep_page", "dep_submit", "dep_wait"}

C10_PhaseChanges ==
    /\ (pc = "dep_page" /\ pc' = "row_page") =>
          page_num = NumPages + 1 /\ DOMAIN work = {}
    /\ (pc = "row_page" /\ pc' = "pool_exit") =>
          page_num = NumPages + 1 /\ DOMAIN work = {}
    /\ page_num' # page_num => DOMAIN work = {}

C10_PhasesOrdered == [](C10_WorkOfCurrentPage) /\ [][C10_PhaseChanges]_vars

\* the second page of the row phase has a delete running: the deletes of the
\* first page were rejected, so the queryset did not shrink
C10_Witness ==
    /\ pc = "row_wait"
    /\ page_num = 2
    /\ <<"row", NumOld>> \in DOMAIN work
    /\ 1 \in rows[Customer]

(***************************************************************************)
(* C12.  An integrity or data error of the bulk update leaves handle as a  *)
(* CommandError at once: the step that raises it changes no row, order,    *)
(* value or signal (what earlier models and the trim of this model did     *)
(* stays), nothing runs after it, and sessions and fake data are as they   *)
(* were.                                                                   *)
(***************************************************************************)
UpdateErrors ==
    {"CommandError: Integrity error while scrubbing",
     "CommandError: DataError while scrubbing"}

C12_Aborted ==
    exc \in UpdateErrors =>
        /\ pc = "raised"
        /\ DOMAIN work = {}
        /\ sessions = sessions0
        /\ fake_data = fake_data0

C12_AbortStep ==
    /\ pc # "raised"
    /\ exc' \in UpdateErrors =>
          /\ pc = "update"
          /\ exc = "none"
          /\ mi' = mi
          /\ UNCHANGED dbvars

C12_UpdateErrorAborts == [](C12_Aborted) /\ [][C12_AbortStep]_vars

\* the update of Note failed after Customer had been trimmed and scrubbed
C12_Witness ==
    /\ pc = "raised"
    /\ exc = "CommandError: Integrity error while scrubbing"
    /\ model = Note
    /\ rows[Customer] # rows0[Customer]
    /\ \E pk \in rows[Customer] : vals[Customer][pk]["email"] = Lit("x@example.com")
    /\ sessions = sessions0

(***************************************************************************)
(* C14.  As claimed: a --model value that has no '.' separator or names no *)
(* registered model makes the command abort with the CommandError          *)
(* '--model should be defined as <app_label>.<model_name>', with nothing   *)
(* trimmed, updated or truncated.                                          *)
(***************************************************************************)
C14_BadModelArg ==
    /\ kwargs.model # NoModelArg
    /\ LET parts == RSplit1(kwargs.model)
       IN  IF Len(parts) # 2 THEN TRUE ELSE RegisteredModels(parts[1], parts[2]) = {}

C14_BadModelArgDiagnosed ==
    (C14_BadModelArg /\ pc \notin {"gate", "strict", "select", "returned"}) =>
        /\ pc = "raised"
        /\ exc = "CommandError: --model should be defined as <app_label>.<model_name>"
        /\ NothingMutated

(***************************************************************************)
(* C15.  At the end of handle the session table is empty exactly when      *)
(* --keep-sessions was not given (and is unchanged when it was), the       *)
(* fake-data table is empty exactly when --remove-fake-data was given, and *)
(* neither table is touched before the model loop has ended.               *)
(***************************************************************************)
C15_Truncations ==
    /\ pc = "done" =>
          /\ sessions = {} <=> ~kwargs.keep_sessions
          /\ kwargs.keep_sessions => sessions = sessions0
          /\ fake_data = {} <=> kwargs.remove_fake_data
          /\ ~kwargs.remove_fake_data => fake_data = fake_data0
    /\ pc \notin {"fake_data", "done"} => sessions = sessions0
    /\ pc # "done" => fake_data = fake_data0
    /\ pc \in {"sessions", "fake_data", "done"} =>
          /\ mi = Len(models)
          /\ DOMAIN work = {}

\* both flags given, after a run that scrubbed Customer
C15_Witness ==
    /\ pc = "done"
    /\ kwargs.keep_sessions
    /\ kwargs.remove_fake_data
    /\ sessions = sessions0
    /\ fake_data = {}
    /\ vals[Customer] # vals0[Customer]

(***************************************************************************)
(* C17.  A model whose rule table is empty once the Keep entries are       *)
(* removed is skipped: the step that finds the table empty goes back to    *)
(* the loop head with no signal disconnected and no row touched, and the   *)
(* signal, trim and update steps only ever run with a non-empty table.     *)
(* For a model that is processed, the update starts with the trim over:    *)
(* no work item is left and the last delete was the final sweep.           *)
(***************************************************************************)
C17_Processing ==
    /\ pc \in {"realize", "options", "trim", "update"} \cup TrimPcs =>
          DOMAIN scrubbers # {}
    /\ pc = "update" =>
          /\ DOMAIN work = {}
          /\ "trim_table" \in options.keys =>
                (last_delete.target = QuerysetTarget /\ last_delete.outcome # "none")
          /\ "trim_table" \notin options.keys => last_delete = NoDelete

C17_SkipStep ==
    (pc = "resolve" /\ DOMAIN scrubbers' = {}) =>
        /\ pc' = "loop"
        /\ UNCHANGED dbvars

C17_EmptyRulesSkipped == [](C17_Processing) /\ [][C17_SkipStep]_vars

\* Customer declares a trim, but all its rules are Keep: nothing was done
C17_Witness ==
    /\ pc = "loop"
    /\ mi = 1
    /\ model = Customer
    /\ "trim_table" \in Scrubbers.meta.keys
    /\ DOMAIN scrubbers = {}
    /\ rows = rows0
    /\ disconnected = {}

(***************************************************************************)
(* C18.  The set of disconnected signals only grows, and the signals a     *)
(* model's options name are disconnected whenever its trim or update is    *)
(* running; so a signal disconnected for one model is still disconnected   *)
(* while every later model is trimmed and updated.                         *)
(***************************************************************************)
C18_DisconnectedBeforeWork ==
    (pc \in {"trim", "update"} \cup TrimPcs /\ "disconnect_signals" \in options.keys) =>
        options.disconnect_signals \subseteq disconnected

C18_Grows == disconnected \subseteq disconnected'

C18_SignalsStayDisconnected == [](C18_DisconnectedBeforeWork) /\ [][C18_Grows]_vars

\* Note is being updated with its own signal and Customer's both disconnected
C18_Witness ==
    /\ pc = "update"
    /\ model = Note
    /\ disconnected = {"post_save:audit", "post_save:index"}
    /\ options.disconnect_signals = {"post_save:index"}
    /\ rows[Customer] # rows0[Customer]

(***************************************************************************)
(* C19.  As claimed: when the paged row loop of _large_delete has ended    *)
(* for a candidate set of more than one page, every row that was a         *)
(* candidate when the trim started has been submitted for its own delete   *)
(* exactly once.                                                           *)
(***************************************************************************)
C19_EveryCandidateSubmittedOnce ==
    (pc \in {"pool_exit", "sweep", "sweep_retry"} /\ count > PageSize) =>
        \A pk \in rows0[table] :
            Created(pk) < cutoff => (pk \in DOMAIN submitted /\ submitted[pk] = 1)

(***************************************************************************)
(* C11.  The orchestrators submit one scrub_data subprocess per model line *)
(* of the validation output, in order; every submitted subprocess          *)
(* eventually exits whatever the exit codes of the others; handle returns, *)
(* and only when all of them have exited, whatever their exit codes.       *)
(***************************************************************************)
C11_ModelLines ==
    {k \in DOMAIN stdout : Len(stdout[k]) = 4 /\ stdout[k] = ModelLine(stdout[k][2])}

C11_OnePerModelLine ==
    /\ Len(procs) <= Cardinality(C11_ModelLines)
    /\ par_pc \in {"executor_exit", "returned"} => Len(procs) = Cardinality(C11_ModelLines)
    /\ \A i \in DOMAIN procs :
          LET k == CHOOSE k \in C11_ModelLines :
                       Cardinality({j \in C11_ModelLines : j < k}) = i - 1
          IN  procs[i].model = stdout[k][2]
    /\ par_pc = "returned" => \A i \in DOMAIN procs : procs[i].st = "exited"
    /\ par_pc \in {"validate", "submit", "executor_exit", "returned"}

C11_HasExited(i) == i \in DOMAIN procs /\ procs[i].st = "exited"

C11_AllRunToCompletion ==
    /\ [](C11_OnePerModelLine)
    /\ \A i \in 1 .. MaxModelLines : (i \in DOMAIN procs) ~> C11_HasExited(i)
    /\ <>(par_pc = "returned")

\* handle has returned after three subprocesses, one of which failed
C11_Witness ==
    /\ par_pc = "returned"
    /\ Len(procs) = 3
    /\ procs[1].rc = 1
    /\ procs[2].rc = 0
    /\ procs[3].st = "exited"

(***************************************************************************)
(* C13.  As claimed: under trim_data --trim-only every scrub_data run that *)
(* is launched gets to work on its model (it is not turned away as a       *)
(* usage error, so that it can trim) and applies no bulk update.           *)
(***************************************************************************)
C13_TrimOnly == command = "trim_data" /\ par_kwargs.trim_only

C13_RunAccepted ==
    C13_TrimOnly => \A i \in DOMAIN procs : procs[i].st = "exited" => procs[i].rc # 2

C13_NoUpdateStep ==
    C13_TrimOnly =>
        \A i \in DOMAIN procs : ~(procs[i].st = "update" /\ procs'[i].st = "sessions")

C13_TrimOnlyTrimsWithoutScrub == [](C13_RunAccepted) /\ [][C13_NoUpdateStep]_vars

(***************************************************************************)
(* C16.  Under trim_data the number of scrub_data subprocesses running at  *)
(* the same time never exceeds the size of the pool, however many models   *)
(* the validation reports.                                                 *)
(***************************************************************************)
C16_PoolBound == command = "trim_data" => Running(procs) <= MaxWorkers

\* more models than workers: the pool is full and a submitted call waits
C16_Witness ==
    /\ command = "trim_data"
    /\ par_pc = "executor_exit"
    /\ Len(procs) > MaxWorkers
    /\ Running(procs) = MaxWorkers
    /\ \E i \in DOMAIN procs : procs[i].st = "queued"

(***************************************************************************)
(* C20.  As claimed: under the orchestrators no subprocess truncates the   *)
(* session table or the fake-data table while another subprocess of the    *)
(* same run is executing its trim or its bulk update.                      *)
(***************************************************************************)
C20_Truncates(i) ==
    /\ procs[i].st \in {"sessions", "fake_data"}
    /\ procs'[i].st # procs[i].st

C20_NoTruncationDuringWork ==
    [][ \A i \in DOMAIN procs :
            C20_Truncates(i) =>
                \A j \in DOMAIN procs \ {i} : procs[j].st \notin {"trim", "update"} ]_vars

====
